---- MODULE Spec2Model ----
(***************************************************************************)
(* UltimateKalman, sequential (Paige-Saunders) engine of the C library:    *)
(* the step log, evolve, observe, smooth, estimate, covariance, forget and *)
(* rollback of src/c/ultimatekalman.c.                                     *)
(*                                                                         *)
(* A matrix is modelled by what the engine's control flow and the claims   *)
(* read of it: whether the pointer is NULL, a live block or a block that   *)
(* was freed and not reset (k), its row and column counts, and a value     *)
(* fingerprint (val) computed from the operands exactly along the data     *)
(* flow of the code, so that two blocks computed from the same operands by *)
(* the same kernel calls are equal and blocks computed differently are     *)
(* not.  The dense kernel itself (QR, triangular solve, ...) is an opaque  *)
(* collaborator of the engine.                                             *)
(*                                                                         *)
(* Calling protocol.  kalman_observe asserts that a step is open and the   *)
(* interface asks for observe to follow evolve, so the clients explored    *)
(* here call observe only on a step that evolve or rollback opened and not *)
(* yet sealed: current is NoStep from the sealing of a step to the next    *)
(* evolve or rollback.  (The C field kalman->current keeps pointing at the *)
(* sealed step; a second observe would append that step twice.)  Every     *)
(* other call is explored at any time and with any argument.               *)
(*                                                                         *)
(* Parallel runtime.  parallel_scan_c of src/c/parallel_tbb.cpp is run     *)
(* under the contract of tbb::parallel_scan: the range is split into       *)
(* blocks, a block is pre-scanned from the identity or final-scanned from  *)
(* the sum of everything to its left, and block sums are joined with the   *)
(* combining operation.  SpecScan explores every such schedule.            *)
(***************************************************************************)
EXTENDS Integers, Sequences, FiniteSets, TLC

VARIABLES
    first,      \* farray: logical index of the first element of kalman->steps
    steps,      \* farray: the step records held by kalman->steps, in order
    current,    \* kalman->current while it is an open (evolved, unsealed) step
    created,    \* number of step_create() calls made so far
    crashed,    \* the process stopped (failed assertion, NULL dereference, abort)
    last,       \* the most recent public call, its arguments and its outcome
    length,     \* parallel_scan_c: number of positions to scan
    stride,     \* parallel_scan_c: +1 forward, -1 backward
    blocksize,  \* the grain size of the blocked range
    blocks,     \* the blocks the runtime has split the range into, left to right
    sums,       \* parallel_scan_c: the output array
    elems,      \* associative engine: the elements handed to the combiners
    folds,      \* associative engine: what the combiner calls returned
    equations,  \* kalman_smooth_associative: the array of step equations
    pc,         \* kalman_smooth_associative: the statement reached
    todo        \* the indices a running foreach_in_range has not processed yet

kvars == <<first, steps, current, created, last>>
pvars == <<length, stride, blocksize, blocks, sums>>
cvars == <<elems, folds>>
avars == <<equations, pc, todo>>
svars == <<length, stride, blocksize, blocks, sums, elems, folds, equations, pc, todo>>
vars  == <<first, steps, current, created, crashed, last,
           length, stride, blocksize, blocks, sums, elems, folds, equations, pc, todo>>

----------------------------------------------------------------------------
(* Bounds of the exploration *)

MaxSteps    == 2       \* step_create() calls explored by Spec
MaxLogSteps == 5       \* step_create() calls explored by SpecLog
MaxDim      == 3       \* state dimensions n_i and block row counts explored
MaxLen      == 4       \* scan lengths explored by SpecScan
MaxProblem  == 3       \* problem lengths l explored by SpecAssoc

Dims     == 1..MaxDim              \* n_i
EvoRows  == 1..MaxDim              \* rows of H_i, F_i, c_i
ObsRows  == 0..MaxDim              \* rows of G_i, o_i; 0 stands for o_i = NULL
StepArgs == -1..MaxSteps           \* the si argument of rollback, forget, estimate

----------------------------------------------------------------------------
(* Matrices *)

\* static double NaN = 0.0 / 0.0: the fingerprint of a block filled with NaN
NaNVal == 0

\* fingerprint of the block a kernel call t computes from operands a and b
Mix(t, a, b) == 1 + ((t * 7919 + a * 31 + b * 17) % 65519)

\* fingerprint of contents that no kernel call computed
Junk == Mix(0, 0, 0) + 65519

NULL == [k |-> "null", rows |-> 0, cols |-> 0, val |-> 0]

Mat(r, c, v) == [k |-> "live", rows |-> r, cols |-> c, val |-> v]

IsNull(m)  == m.k = "null"
IsLive(m)  == m.k = "live"
IsFreed(m) == m.k = "freed"

matrix_rows(m) == m.rows
matrix_cols(m) == m.cols

\* the pointer keeps its value; the block it names is gone, and nothing is
\* known of what its memory holds from then on
FREED == [k |-> "freed", rows |-> 0, cols |-> 0, val |-> 0]

matrix_free(m) == IF IsLive(m) THEN FREED ELSE m

matrix_create_constant(r, c, v) == Mat(r, c, v)

\* the copy of no block is no block
matrix_create_copy(m) == IF IsNull(m) THEN NULL ELSE Mat(m.rows, m.cols, m.val)

matrix_create_vconcat(a, b) ==
    IF IsNull(a) /\ IsNull(b) THEN NULL
    ELSE IF IsNull(a) THEN matrix_create_copy(b)
    ELSE IF IsNull(b) THEN matrix_create_copy(a)
    ELSE Mat(a.rows + b.rows, a.cols, Mix(2, a.val, b.val))

matrix_create_sub(m, r0, nr, c0, nc) ==
    Mat(nr, nc, Mix(3, m.val, r0 * 64 + nr * 8 + nc))

matrix_mutate_chop(m, r, c) ==
    IF r = m.rows /\ c = m.cols THEN m
    ELSE Mat(r, c, Mix(4, m.val, r * 8 + c))

matrix_mutate_scale(m, s) == Mat(m.rows, m.cols, Mix(5, m.val, s))

\* the factored matrix after matrix_create_mutate_qr (R and the reflectors)
matrix_create_mutate_qr(m) == Mat(m.rows, m.cols, Mix(6, m.val, 0))

\* B after matrix_mutate_apply_qt(A, TAU, B), A already factored
matrix_mutate_apply_qt(a, b) == Mat(b.rows, b.cols, Mix(7, a.val, b.val))

matrix_mutate_triu(m) == Mat(m.rows, m.cols, Mix(8, m.val, 0))

matrix_create_trisolve(r, b) == Mat(r.cols, b.cols, Mix(9, r.val, b.val))

cov_weigh(cov, A) == Mat(A.rows, A.cols, Mix(10, cov.val, A.val))

Min(a, b) == IF a < b THEN a ELSE b

----------------------------------------------------------------------------
(* The caller's matrices: one matrix per shape *)

H_in(l, n) == Mat(l, n, Mix(21, l, n))
F_in(l, n) == Mat(l, n, Mix(22, l, n))
c_in(l)    == Mat(l, 1, Mix(23, l, 1))
K_in(l)    == Mat(l, l, Mix(24, l, l))
G_in(m, n) == Mat(m, n, Mix(25, m, n))
o_in(m)    == Mat(m, 1, Mix(26, m, 1))
C_in(m)    == Mat(m, m, Mix(27, m, m))

----------------------------------------------------------------------------
(* Steps *)

\* a value no step argument and no row count takes
None  == -(MaxLogSteps + 4)
NoObs == None

step_create ==
    [ step       |-> -1,
      dimension  |-> -1,
      Rdiag      |-> NULL,
      Rsupdiag   |-> NULL,
      y          |-> NULL,
      Rbar       |-> NULL,
      ybar       |-> NULL,
      state      |-> NULL,
      covariance |-> NULL,
      obs        |-> NoObs ]      \* history: rows of the observation it was sealed with

NoStep == [step_create EXCEPT !.step = -2]

----------------------------------------------------------------------------
(* The step log (farray) *)

farray_size        == Len(steps)
farray_first_index == first
farray_last_index  == first + Len(steps) - 1
farray_get_first   == steps[1]
farray_get_last    == steps[Len(steps)]
farray_get(i)      == steps[i - first + 1]
InLog(i)           == farray_first_index <= i /\ i <= farray_last_index

kalman_earliest == IF farray_size = 0 THEN -1 ELSE farray_get_first.step
\* the index of the first step given for the last
kalman_latest_first == IF farray_size = 0 THEN -1 ELSE farray_get_first.step

kalman_latest   == IF farray_size = 0 THEN -1 ELSE farray_get_last.step

\* a and b are the arguments that shaped the outcome; a call that returned at
\* once records None for them

Call(op, a, b) == [op |-> op, a |-> a, b |-> b, ub |-> FALSE, nul |-> "none"]

----------------------------------------------------------------------------
Init ==
    /\ first = 0
    /\ steps = <<>>
    /\ current = NoStep
    /\ created = 0
    /\ crashed = FALSE
    /\ last = Call("create", None, None)
    /\ length = 0 /\ stride = 1 /\ blocksize = 1      \* no scan is running
    /\ blocks = <<>> /\ sums = <<>>
    /\ elems = <<>> /\ folds = <<>>                    \* no combiner is running
    /\ equations = <<>> /\ pc = "none" /\ todo = {}

----------------------------------------------------------------------------
(* Reading a block that was freed: the read may find the old contents, or   *)
(* whatever the allocator put there since                                   *)

Reads(m, cols) ==
    IF IsFreed(m) THEN {Mat(r, cols, Junk) : r \in 0..MaxDim} ELSE {m}

----------------------------------------------------------------------------
(* kalman_evolve *)

\* the three blocks [A; B; y] after the QR factorization of A, given the
\* blocks Rd, yv read from the previous step (NULL when it has no Rdiag)
evolve_blocks(Rd, yv, l, n, n_imo) ==
    LET V_i_H_i == cov_weigh(K_in(l), H_in(l, n))
        V_i_F_i == matrix_mutate_scale(cov_weigh(K_in(l), F_in(l, n_imo)), -1)
        V_i_c_i == cov_weigh(K_in(l), c_in(l))
        z_i     == matrix_rows(Rd)
        A0 == IF ~IsNull(Rd) THEN matrix_create_vconcat(Rd, V_i_F_i)
                             ELSE matrix_create_copy(V_i_F_i)
        B0 == IF ~IsNull(Rd)
              THEN matrix_create_vconcat(matrix_create_constant(z_i, n, Mix(11, z_i, n)), V_i_H_i)
              ELSE matrix_create_copy(V_i_H_i)
        y0 == IF ~IsNull(Rd) THEN matrix_create_vconcat(yv, V_i_c_i)
                             ELSE matrix_create_copy(V_i_c_i)
        A  == matrix_create_mutate_qr(A0)
    IN  [A |-> A, B |-> matrix_mutate_apply_qt(A, B0), y |-> matrix_mutate_apply_qt(A, y0)]

\* the open step: Rbar/ybar are the rows of B, y below row n_imo, if any
evolve_current(cur, blk, n_imo) ==
    IF matrix_rows(blk.B) > n_imo
    THEN [cur EXCEPT
            !.Rbar = matrix_create_sub(blk.B, n_imo, matrix_rows(blk.B) - n_imo, 0, matrix_cols(blk.B)),
            !.ybar = matrix_create_sub(blk.y, n_imo, matrix_rows(blk.y) - n_imo, 0, matrix_cols(blk.y))]
    ELSE cur

\* the previous step: block row i-1 is sealed
evolve_imo(imo, blk, n_imo) ==
    [imo EXCEPT
        !.Rdiag    = matrix_mutate_triu(
                        matrix_mutate_chop(blk.A, Min(matrix_rows(blk.A), n_imo), matrix_cols(blk.A))),
        !.Rsupdiag = matrix_mutate_chop(blk.B, Min(matrix_rows(blk.B), n_imo), matrix_cols(blk.B)),
        !.y        = matrix_mutate_chop(blk.y, Min(matrix_rows(blk.y), n_imo), matrix_cols(blk.y))]

\* the argument the caller passes as NULL, if any
NullArgs == {"none", "H_i", "F_i", "c_i", "K_i"}

\* no argument is looked at, so none stops the call
evolve_asserts_none(nul) == FALSE

\* a NULL argument stops the call: assert(H_i!=NULL), assert(F_i!=NULL),
\* assert(c_i!=NULL), and cov_weigh's assert(cov != NULL) for K_i
evolve_asserts(nul) == nul # "none"

\* a first step that is given no number
evolve_first_step_unset(kalman_current) == kalman_current

\* the first step of an empty log
evolve_first_step(kalman_current) == [kalman_current EXCEPT !.step = 0]

\* last records n_i and whether the log held a step (b = 1) or not (b = 0)
kalman_evolve(n_i, l, nul) ==
    /\ ~crashed
    /\ UNCHANGED svars
    /\ created' = created + 1
    /\ first' = first
    /\ LET kalman_current == [step_create EXCEPT !.dimension = n_i] IN
       IF farray_size = 0
       THEN /\ current' = evolve_first_step(kalman_current)
            /\ steps' = steps
            /\ crashed' = FALSE
            /\ last' = [Call("evolve", n_i, 0) EXCEPT !.nul = nul]
       ELSE IF evolve_asserts(nul)
       THEN /\ crashed' = TRUE
            /\ last' = [Call("evolve", None, 1) EXCEPT !.nul = nul]
            /\ UNCHANGED <<steps, current>>
       ELSE LET imo   == farray_get_last
                n_imo == imo.dimension
                undef == IsFreed(imo.Rdiag) \/ IsFreed(imo.y)
            IN  \/ /\ undef      \* the run-time library aborts on the double free
                   /\ crashed' = TRUE
                   /\ last' = [Call("evolve", None, 1) EXCEPT !.ub = TRUE, !.nul = nul]
                   /\ UNCHANGED <<steps, current>>
                \/ \E Rd \in Reads(imo.Rdiag, n_imo) :
                      LET yv  == IF IsFreed(imo.y) THEN Mat(Rd.rows, 1, Junk) ELSE imo.y
                          blk == evolve_blocks(Rd, yv, l, n_i, n_imo)
                      IN  /\ current' = evolve_current(
                                            [kalman_current EXCEPT !.step = imo.step + 1], blk, n_imo)
                          /\ steps' = [steps EXCEPT ![Len(steps)] = evolve_imo(imo, blk, n_imo)]
                          /\ crashed' = FALSE
                          /\ last' = [Call("evolve", None, 1) EXCEPT !.ub = undef, !.nul = nul]

Evolve(n_i, l, nul) == created < MaxSteps /\ kalman_evolve(n_i, l, nul)

----------------------------------------------------------------------------
(* kalman_observe *)

\* the estimate computed whether or not the step is determined
observe_state_solved(Rdiag, y, n_i) == matrix_create_trisolve(Rdiag, y)

\* the filtered estimate of a step whose rows are Rdiag, y
observe_state(Rdiag, y, n_i) ==
    IF matrix_rows(Rdiag) = n_i
    THEN matrix_create_trisolve(Rdiag, y)
    ELSE matrix_create_constant(n_i, 1, NaNVal)

\* the open step after the observation (m rows; m = 0: o_i = NULL) is absorbed
observe_step(cur, m) ==
    LET n_i     == cur.dimension
        W_i_G_i == IF m # 0 THEN cov_weigh(C_in(m), G_in(m, n_i)) ELSE NULL
        W_i_o_i == IF m # 0 THEN cov_weigh(C_in(m), o_in(m)) ELSE NULL
        A0 == matrix_create_vconcat(cur.Rbar, W_i_G_i)
        y0 == matrix_create_vconcat(cur.ybar, W_i_o_i)
    IN  IF IsNull(A0) THEN [cur EXCEPT !.obs = m]
        ELSE
        LET tall  == matrix_rows(A0) >= matrix_cols(A0)
            Aq    == matrix_create_mutate_qr(A0)
            Rdiag == IF tall
                     THEN matrix_mutate_triu(
                            matrix_mutate_chop(Aq, Min(matrix_rows(Aq), n_i), matrix_cols(Aq)))
                     ELSE A0
            y     == IF tall
                     THEN LET yq == matrix_mutate_apply_qt(Aq, y0)
                          IN  matrix_mutate_chop(yq, Min(matrix_rows(yq), n_i), matrix_cols(yq))
                     ELSE y0
        IN  [cur EXCEPT !.Rdiag = Rdiag, !.y = y,
                        !.state = observe_state(Rdiag, y, n_i),
                        !.covariance = matrix_create_copy(Rdiag), !.obs = m]

Observe(m) ==
    /\ ~crashed
    /\ current # NoStep           \* assert(kalman->current != NULL)
    /\ steps' = Append(steps, observe_step(current, m))
    /\ current' = NoStep
    /\ last' = Call("observe", m, None)
    /\ UNCHANGED <<first, created, crashed>>
    /\ UNCHANGED svars

----------------------------------------------------------------------------
(* step_free, kalman_forget *)

StepMatrices(s) == {s.covariance, s.state, s.Rdiag, s.Rsupdiag, s.y, s.Rbar, s.ybar}

\* step_free(s) hands an already freed block to matrix_free
step_free_double(s) == \E m \in StepMatrices(s) : IsFreed(m)

\* the same test one step late: it lets the last step go
forget_keeps_last_late(si) == si > farray_last_index

\* si is past the last step that may go: don't delete last step
forget_keeps_last(si) == si > farray_last_index - 1

\* the index kalman_forget works with, or -2 when it returns at once
forget_index(si) ==
    LET s1 == IF si < 0 THEN farray_last_index - 1 ELSE si
    IN  IF farray_size = 0 THEN -2
        ELSE IF forget_keeps_last(s1) THEN -2
        ELSE IF s1 < farray_first_index THEN -2        \* nothing to delete
        ELSE s1

\* number of farray_drop_first calls of the while loop
forget_count(si) ==
    IF forget_index(si) = -2 THEN 0 ELSE forget_index(si) - farray_first_index + 1

Forget(si) ==
    /\ ~crashed
    /\ LET k     == forget_count(si)
           undef == \E j \in 1..k : step_free_double(steps[j])
       IN  \/ /\ undef          \* abort on the double free
              /\ crashed' = TRUE
              /\ last' = [Call("forget", None, k) EXCEPT !.ub = TRUE]
              /\ UNCHANGED <<first, steps>>
           \/ /\ steps' = SubSeq(steps, k + 1, Len(steps))
              /\ first' = first + k
              /\ crashed' = FALSE
              /\ last' = [Call("forget", None, k) EXCEPT !.ub = undef]
    /\ UNCHANGED <<current, created>>
    /\ UNCHANGED svars

----------------------------------------------------------------------------
(* kalman_rollback *)

\* a rollback that releases the step's Rbar/ybar along with the other blocks
rollback_step_all(step) ==
    [step EXCEPT !.Rdiag      = matrix_free(step.Rdiag),
                 !.Rsupdiag   = matrix_free(step.Rsupdiag),
                 !.y          = matrix_free(step.y),
                 !.state      = matrix_free(step.state),
                 !.covariance = matrix_free(step.covariance),
                 !.Rbar       = matrix_free(step.Rbar),
                 !.ybar       = matrix_free(step.ybar)]

\* the step that becomes kalman->current: its blocks are freed, the pointers stay
rollback_step(step) ==
    [step EXCEPT !.Rdiag      = matrix_free(step.Rdiag),
                 !.Rsupdiag   = matrix_free(step.Rsupdiag),
                 !.y          = matrix_free(step.y),
                 !.state      = matrix_free(step.state),
                 !.covariance = matrix_free(step.covariance)]

rollback_double(step) ==
    \E m \in {step.Rdiag, step.Rsupdiag, step.y, step.state, step.covariance} : IsFreed(m)

\* the do-while loop: log and cur after it; under: farray_drop_last on an
\* empty array; dbl: a block freed twice; hit: a step became kalman->current
RECURSIVE rollback_loop(_, _, _)
rollback_loop(log, cur, si) ==
    IF Len(log) = 0
    THEN [log |-> log, cur |-> cur, under |-> TRUE, dbl |-> FALSE, hit |-> FALSE]
    ELSE LET step == log[Len(log)]
             rest == SubSeq(log, 1, Len(log) - 1)
         IN  IF step.step = si
             THEN [log |-> rest, cur |-> rollback_step(step), under |-> FALSE,
                   dbl |-> rollback_double(step), hit |-> TRUE]
             ELSE IF step.step > si
             THEN rollback_loop(rest, cur, si)
             ELSE [log |-> rest, cur |-> cur, under |-> FALSE, dbl |-> FALSE, hit |-> FALSE]

rollback_returns(si) ==
    \/ farray_size = 0
    \/ si > farray_last_index
    \/ si < farray_first_index

Rollback(si) ==
    /\ ~crashed
    /\ IF rollback_returns(si)
       THEN /\ last' = Call("rollback", None, 0)
            /\ UNCHANGED <<steps, current, crashed>>
       ELSE LET r     == rollback_loop(steps, current, si)
                undef == r.under \/ r.dbl
            IN  \/ /\ undef
                   /\ crashed' = TRUE
                   /\ last' = [Call("rollback", None, 0) EXCEPT !.ub = TRUE]
                   /\ UNCHANGED <<steps, current>>
                \/ /\ ~r.under
                   /\ steps' = r.log
                   /\ current' = r.cur
                   /\ crashed' = FALSE
                   /\ last' = [Call("rollback", IF r.hit THEN si ELSE None,
                                     IF r.hit THEN 1 ELSE 2) EXCEPT !.ub = undef]
    /\ UNCHANGED <<first, created>>
    /\ UNCHANGED svars

----------------------------------------------------------------------------
(* kalman_smooth *)

matrix_mutate_copy(dst, src) ==
    IF dst.rows = src.rows /\ dst.cols = src.cols
    THEN Mat(dst.rows, dst.cols, src.val)
    ELSE Mat(dst.rows, dst.cols, Mix(12, src.val, dst.rows))

\* C <- alpha*A*B + beta*C
matrix_mutate_gemm(A, B, C) == Mat(C.rows, C.cols, Mix(13, Mix(14, A.val, B.val), C.val))

matrix_mutate_trisolve(r, b) == Mat(b.rows, b.cols, Mix(9, r.val, b.val))

\* first loop: the state of the step at position p, prev_state that of p+1
smooth_state(i, is_last, prev_state) ==
    LET s0 == IF IsNull(i.state) THEN Mat(matrix_rows(i.y), 1, Junk)
                                 ELSE Mat(i.state.rows, i.state.cols, i.state.val)
        s1 == matrix_mutate_copy(s0, i.y)
        s2 == IF is_last THEN s1 ELSE matrix_mutate_gemm(i.Rsupdiag, prev_state, s1)
    IN  matrix_mutate_trisolve(i.Rdiag, s2)

RECURSIVE smooth_states(_, _, _)
smooth_states(log, p, prev_state) ==
    IF p = 0 THEN log
    ELSE LET st == smooth_state(log[p], p = Len(log), prev_state)
         IN  smooth_states([log EXCEPT ![p].state = st], p - 1, st)

\* second loop: the covariance of the step at position p < last, R and n_ipo
\* those left by position p+1
smooth_covariance(i, R, n_ipo) ==
    LET n_i == matrix_rows(i.Rdiag)
        A   == matrix_create_mutate_qr(matrix_create_vconcat(i.Rsupdiag, R))
        S0  == matrix_create_vconcat(i.Rdiag,
                   matrix_create_constant(matrix_rows(R), matrix_cols(i.Rdiag),
                                          Mix(11, matrix_rows(R), matrix_cols(i.Rdiag))))
        S   == matrix_mutate_apply_qt(A, S0)
    IN  matrix_create_sub(S, n_ipo, n_i, 0, n_i)

RECURSIVE smooth_covariances(_, _, _, _)
smooth_covariances(log, p, R, n_ipo) ==
    IF p = 0 THEN log
    ELSE IF p = Len(log)
    THEN smooth_covariances(log, p - 1, log[p].Rdiag, matrix_rows(log[p].Rdiag))
    ELSE LET cov == smooth_covariance(log[p], R, n_ipo)
         IN  smooth_covariances([log EXCEPT ![p].covariance = cov], p - 1,
                                cov, matrix_rows(log[p].Rdiag))

\* a NULL block is dereferenced
smooth_null ==
    \E p \in 1..Len(steps) :
        \/ IsNull(steps[p].y)
        \/ IsNull(steps[p].Rdiag)
        \/ p < Len(steps) /\ IsNull(steps[p].Rsupdiag)

\* a freed block is read, written or freed again
smooth_freed ==
    \E p \in 1..Len(steps) :
        \/ IsFreed(steps[p].y)
        \/ IsFreed(steps[p].Rdiag)
        \/ IsFreed(steps[p].state)
        \/ p < Len(steps) /\ IsFreed(steps[p].Rsupdiag)
        \/ p < Len(steps) /\ IsFreed(steps[p].covariance)

\* what a read of a released block may find: one content or another
StaleReads == {Junk, Junk + 1}

\* the blocks as the loops find them when a freed block is read
Stale(m, r, c, j) == IF IsFreed(m) THEN Mat(r, c, j) ELSE m

StaleStep(s, j) ==
    [s EXCEPT !.Rdiag    = Stale(s.Rdiag, s.dimension, s.dimension, j),
              !.y        = Stale(s.y, s.dimension, 1, j),
              !.state    = Stale(s.state, s.dimension, 1, j),
              !.Rsupdiag = Stale(s.Rsupdiag, s.dimension, s.dimension, j)]

\* the log after both loops ran on the blocks found (log0): the loops write
\* through i->state and replace i->covariance below the last step; every
\* other pointer of the step stays what it was, released or not
smooth_result(log0) ==
    LET log1 == smooth_states(log0, Len(log0), NULL)
        log2 == smooth_covariances(log1, Len(log1), NULL, 0)
    IN  [p \in 1..Len(steps) |->
            [steps[p] EXCEPT
                !.state      = IF IsFreed(steps[p].state) THEN FREED ELSE log2[p].state,
                !.covariance = log2[p].covariance]]

Smooth ==
    /\ ~crashed
    /\ IF farray_size = 0
       THEN /\ last' = Call("smooth", 0, 0)
            /\ UNCHANGED <<steps, crashed>>
       ELSE \/ /\ smooth_null \/ smooth_freed
               /\ crashed' = TRUE
               /\ last' = [Call("smooth", 0, 0) EXCEPT !.ub = smooth_freed]
               /\ UNCHANGED steps
            \/ /\ ~smooth_null
               /\ \E j \in (IF smooth_freed THEN StaleReads ELSE {Junk}) :
                     steps' = smooth_result([p \in 1..Len(steps) |-> StaleStep(steps[p], j)])
               /\ crashed' = FALSE
               /\ last' = [Call("smooth", 0, 0) EXCEPT !.ub = smooth_freed]
    /\ UNCHANGED <<first, current, created>>
    /\ UNCHANGED svars

----------------------------------------------------------------------------
(* kalman_estimate, kalman_covariance: what the call returns.  NULL on an   *)
(* empty log; Failed when farray_get is asked for an index outside the log *)
(* or a NULL block is dereferenced; Undefined when a freed block is read.  *)

Failed    == [k |-> "failed", rows |-> 0, cols |-> 0, val |-> 0]
Undefined == [k |-> "undefined", rows |-> 0, cols |-> 0, val |-> 0]

kalman_estimate(si) ==
    IF farray_size = 0 THEN NULL
    ELSE LET s == IF si < 0 THEN farray_last_index ELSE si
         IN  IF ~InLog(s) THEN Failed
             ELSE LET step == farray_get(s)
                  IN  IF IsNull(step.state)
                      THEN matrix_create_constant(step.dimension, 1, NaNVal)
                      ELSE IF IsFreed(step.state) THEN Undefined
                      ELSE matrix_create_copy(step.state)

kalman_covariance(si) ==
    IF farray_size = 0 THEN NULL
    ELSE LET s == IF si < 0 THEN farray_last_index ELSE si
         IN  IF ~InLog(s) THEN Failed
             ELSE LET step == farray_get(s)
                      n_i  == step.dimension
                  IN  IF IsFreed(step.Rdiag) THEN Undefined
                      ELSE IF ~IsNull(step.Rdiag) /\ matrix_rows(step.Rdiag) = n_i
                      THEN IF IsNull(step.covariance) THEN Failed
                           ELSE IF IsFreed(step.covariance) THEN Undefined
                           ELSE matrix_create_copy(step.covariance)
                      ELSE matrix_create_constant(n_i, n_i, NaNVal)

----------------------------------------------------------------------------
Next ==
    \/ \E n_i \in Dims, l \in EvoRows, nul \in NullArgs : Evolve(n_i, l, nul)
    \/ \E m \in ObsRows : Observe(m)
    \/ \E si \in StepArgs : Forget(si)
    \/ \E si \in StepArgs : Rollback(si)
    \/ Smooth

Spec == Init /\ [][Next]_vars

----------------------------------------------------------------------------
(* Longer runs of the log operations, every block of full size *)

LogArgs == -1..MaxLogSteps

EvolveLog  == created < MaxLogSteps /\ kalman_evolve(MaxDim, MaxDim, "none")
ObserveLog == Observe(MaxDim)

NextLog ==
    \/ EvolveLog
    \/ ObserveLog
    \/ \E si \in LogArgs : Forget(si)
    \/ \E si \in LogArgs : Rollback(si)
    \/ Smooth

SpecLog == Init /\ [][NextLog]_vars

----------------------------------------------------------------------------
(* parallel_scan_c: tbb::parallel_scan over blocked_range(0, length,        *)
(* blocksize), starting value NULL.  An element is the list of the input    *)
(* positions folded into it, in the order of the fold: the combiner f is    *)
(* then any associative operation that has NULL for identity.               *)

ScanLengths == 1..MaxLen
Grains      == 1..2

scan_identity == <<>>             \* (void*) NULL, the starting value
NoSum         == <<None>>         \* not computed yet

f(left, right) == left \o right

\* input[j]; the array holds the entries 0 .. length-1, the entry at length is
\* whatever follows the array in memory
input(j) == <<j>>

\* the scan operation reading upwards whatever the stride
scan_index_up(i) == i + 1

\* the position j the scan operation reads for the range position i
scan_index(i) == IF stride = -1 THEN length - 1 - i ELSE i + 1

\* the scan operation reads past the array
scan_reads_past(lo, hi) ==
    \E i \in lo..(hi - 1) : scan_index(i) \notin 0..(length - 1)

\* temp after the loop over [i, hi)
RECURSIVE scan_loop(_, _, _)
scan_loop(i, hi, temp) ==
    IF i >= hi THEN temp
    ELSE scan_loop(i + 1, hi, f(temp, input(scan_index(i))))

\* the output array after a final scan of [lo, hi) entered with sum
scan_writes(lo, hi, sum) ==
    [k \in DOMAIN sums |->
        IF lo <= k /\ k < hi THEN scan_loop(lo, k + 1, sum) ELSE sums[k]]

\* the sum of everything to the left of block p: the value a final scan
\* returned, or block sums joined by the combining operation
RECURSIVE left_known(_)
left_known(p) ==
    IF p = 1 THEN TRUE
    ELSE IF blocks[p - 1].out # NoSum THEN TRUE
    ELSE blocks[p - 1].pre # NoSum /\ left_known(p - 1)

RECURSIVE left_sum(_)
left_sum(p) ==
    IF p = 1 THEN scan_identity
    ELSE IF blocks[p - 1].out # NoSum THEN blocks[p - 1].out
    ELSE f(left_sum(p - 1), blocks[p - 1].pre)

ScanInit ==
    /\ length \in ScanLengths
    /\ stride \in {1, -1}
    /\ blocksize \in Grains
    /\ blocks = << [lo |-> 0, hi |-> length, pre |-> NoSum, out |-> NoSum] >>
    /\ sums = [k \in 0..(length - 1) |-> NoSum]
    /\ elems = <<>> /\ folds = <<>>
    /\ equations = <<>> /\ pc = "none" /\ todo = {}
    /\ first = 0 /\ steps = <<>> /\ current = NoStep /\ created = 0
    /\ crashed = FALSE
    /\ last = Call("create", None, None)

\* the runtime splits a divisible block that no scan has touched
Split(p) ==
    /\ ~crashed
    /\ p <= Len(blocks)
    /\ blocks[p].pre = NoSum /\ blocks[p].out = NoSum
    /\ blocks[p].hi - blocks[p].lo > blocksize
    /\ LET mid == blocks[p].lo + (blocks[p].hi - blocks[p].lo) \div 2
       IN  blocks' = SubSeq(blocks, 1, p - 1)
                     \o << [blocks[p] EXCEPT !.hi = mid], [blocks[p] EXCEPT !.lo = mid] >>
                     \o SubSeq(blocks, p + 1, Len(blocks))
    /\ UNCHANGED <<length, stride, blocksize, sums, crashed>>
    /\ UNCHANGED <<kvars, cvars, avars>>

\* the scan operation with is_final_scan false, entered with the identity
PreScan(p) ==
    /\ ~crashed
    /\ p <= Len(blocks)
    /\ blocks[p].pre = NoSum /\ blocks[p].out = NoSum
    /\ \/ /\ scan_reads_past(blocks[p].lo, blocks[p].hi)    \* the read faults
          /\ crashed' = TRUE
          /\ UNCHANGED blocks
       \/ /\ blocks' = [blocks EXCEPT ![p].pre =
                           scan_loop(blocks[p].lo, blocks[p].hi, scan_identity)]
          /\ crashed' = FALSE
    /\ UNCHANGED <<length, stride, blocksize, sums>>
    /\ UNCHANGED <<kvars, cvars, avars>>

\* the scan operation with is_final_scan true, entered with the sum to the left
FinalScan(p) ==
    /\ ~crashed
    /\ p <= Len(blocks)
    /\ blocks[p].out = NoSum
    /\ left_known(p)
    /\ \/ /\ scan_reads_past(blocks[p].lo, blocks[p].hi)    \* the read faults
          /\ crashed' = TRUE
          /\ UNCHANGED <<blocks, sums>>
       \/ /\ blocks' = [blocks EXCEPT ![p].out =
                           scan_loop(blocks[p].lo, blocks[p].hi, left_sum(p))]
          /\ sums' = scan_writes(blocks[p].lo, blocks[p].hi, left_sum(p))
          /\ crashed' = FALSE
    /\ UNCHANGED <<length, stride, blocksize>>
    /\ UNCHANGED <<kvars, cvars, avars>>

ScanNext ==
    \/ \E p \in 1..MaxLen : Split(p)
    \/ \E p \in 1..MaxLen : PreScan(p)
    \/ \E p \in 1..MaxLen : FinalScan(p)

SpecScan == ScanInit /\ [][ScanNext]_vars

----------------------------------------------------------------------------
(* Associative engine: dense kernel with exact entries.  The val of a      *)
(* block is its entries, row by row, as the digits of a number in base     *)
(* 101; sums and products are those of the integers modulo 101, so that    *)
(* every identity of matrix algebra holds of them and no other identity is *)
(* assumed.  A solve returns a block that only its operands determine.     *)

RECURSIVE SumTo(_, _)
SumTo(fn, n) == IF n = 0 THEN 0 ELSE fn[n - 1] + SumTo(fn, n - 1)

Entry(m, i, j) == (m.val \div (101 ^ (i * m.cols + j))) % 101

\* the r x c block with the entries e[0], e[1], ... row by row
Pack(r, c, e) == Mat(r, c, SumTo([p \in 0..(r * c - 1) |-> e[p] * (101 ^ p)], r * c))

matrix_create_identity(r, c) ==
    Pack(r, c, [p \in 0..(r * c - 1) |-> IF p \div c = p % c THEN 1 ELSE 0])

matrix_create_multiply(A, B) ==
    Pack(A.rows, B.cols,
         [p \in 0..(A.rows * B.cols - 1) |->
             SumTo([k \in 0..(A.cols - 1) |->
                       Entry(A, p \div B.cols, k) * Entry(B, k, p % B.cols)], A.cols) % 101])

matrix_create_add(A, B) ==
    Pack(A.rows, A.cols,
         [p \in 0..(A.rows * A.cols - 1) |->
             (Entry(A, p \div A.cols, p % A.cols) + Entry(B, p \div A.cols, p % A.cols)) % 101])

matrix_create_subtract(A, B) ==
    Pack(A.rows, A.cols,
         [p \in 0..(A.rows * A.cols - 1) |->
             (Entry(A, p \div A.cols, p % A.cols) + 101
                 - Entry(B, p \div A.cols, p % A.cols)) % 101])

matrix_create_transpose(A) ==
    Pack(A.cols, A.rows,
         [p \in 0..(A.rows * A.cols - 1) |-> Entry(A, p % A.rows, p \div A.rows)])

\* the solution X of A X = B
matrix_create_mldivide(A, B) ==
    Mat(A.cols, B.cols, Mix(15, A.val % 65519, B.val % 65519))

----------------------------------------------------------------------------
(* Associative engine: the elements and the two combiners *)

\* step_create(): a record at the address ptr, every block NULL
element_create(ptr) ==
    [ptr |-> ptr, step |-> 0, dimension |-> 0,
     F |-> NULL, c |-> NULL, K |-> NULL,
     Z |-> NULL, A |-> NULL, b |-> NULL, e |-> NULL, J |-> NULL,
     E |-> NULL, g |-> NULL, L |-> NULL, state |-> NULL, covariance |-> NULL]

\* a NULL step_t*
NullElement == element_create(0)

\* si, sj: the operands; fresh: the address the next step_create() returns
filteringAssociativeOperation(si, sj, fresh) ==
    IF si.ptr = 0 THEN sj
    ELSE IF sj.ptr = 0 THEN si
    ELSE
    LET ni     == matrix_rows(si.b)
        eye_ni == matrix_create_identity(ni, ni)
        X  == matrix_create_transpose(matrix_create_mldivide(
                  matrix_create_transpose(
                      matrix_create_add(eye_ni, matrix_create_multiply(si.Z, sj.J))),
                  matrix_create_transpose(sj.A)))
        Y  == matrix_create_transpose(matrix_create_mldivide(
                  matrix_create_transpose(
                      matrix_create_add(eye_ni, matrix_create_multiply(sj.J, si.Z))),
                  si.A))
    IN  [element_create(fresh) EXCEPT
            !.A = matrix_create_multiply(X, si.A),
            !.b = matrix_create_add(
                     matrix_create_multiply(X,
                         matrix_create_add(matrix_create_multiply(si.Z, sj.e), si.b)),
                     sj.b),
            !.Z = matrix_create_add(
                     matrix_create_multiply(matrix_create_multiply(X, si.Z),
                                            matrix_create_transpose(sj.A)),
                     sj.Z),
            !.e = matrix_create_add(
                     matrix_create_multiply(Y,
                         matrix_create_subtract(sj.e, matrix_create_multiply(sj.J, si.b))),
                     si.e),
            !.J = matrix_create_add(
                     matrix_create_multiply(Y, matrix_create_multiply(sj.J, si.A)),
                     si.J)]

\* the combiner with the transposition left out
smoothingAssociativeOperation_plain(si, sj, fresh) ==
    IF si.ptr = 0 THEN sj
    ELSE IF sj.ptr = 0 THEN si
    ELSE [element_create(fresh) EXCEPT
            !.E = matrix_create_multiply(sj.E, si.E),
            !.g = matrix_create_add(matrix_create_multiply(sj.E, si.g), sj.g),
            !.L = matrix_create_add(
                     matrix_create_multiply(matrix_create_multiply(sj.E, si.L), sj.E),
                     sj.L)]

smoothingAssociativeOperation(si, sj, fresh) ==
    IF si.ptr = 0 THEN sj
    ELSE IF sj.ptr = 0 THEN si
    ELSE [element_create(fresh) EXCEPT
            !.E = matrix_create_multiply(sj.E, si.E),
            !.g = matrix_create_add(matrix_create_multiply(sj.E, si.g), sj.g),
            !.L = matrix_create_add(
                     matrix_create_multiply(matrix_create_multiply(sj.E, si.L),
                                            matrix_create_transpose(sj.E)),
                     sj.L)]

\* the blocks the explored elements are made of
Matrix2(a, b, c, d) == Pack(2, 2, [p \in 0..3 |-> <<a, b, c, d>>[p + 1]])
Vector2(x, y)       == Pack(2, 1, [p \in 0..1 |-> <<x, y>>[p + 1]])

SomeE == {Matrix2(1, 1, 0, 1), Matrix2(1, 0, 1, 1), Matrix2(0, 1, 1, 0)}
Someg == {Vector2(1, 0), Vector2(0, 1)}
SomeL == {Matrix2(2, 1, 1, 3)}

\* an element at the address ptr that carries both a filtering and a
\* smoothing tuple
Element(ptr, E, g, L) ==
    [element_create(ptr) EXCEPT
        !.E = E, !.g = g, !.L = L,
        !.A = E, !.b = g, !.Z = L, !.e = g, !.J = L]

ElementsAt(ptr) ==
    {NullElement} \cup {Element(ptr, E, g, L) : E \in SomeE, g \in Someg, L \in SomeL}

NoFold == element_create(None)      \* a combiner call not made yet

Slots == {"ab", "bc", "ab_c", "a_bc", "f_ab"}

CombineInit ==
    /\ elems \in {<<a, b, c>> : a \in ElementsAt(1), b \in ElementsAt(2), c \in ElementsAt(3)}
    /\ folds = [s \in Slots |-> NoFold]
    /\ equations = <<>> /\ pc = "none" /\ todo = {}
    /\ length = 0 /\ stride = 1 /\ blocksize = 1
    /\ blocks = <<>> /\ sums = <<>>
    /\ first = 0 /\ steps = <<>> /\ current = NoStep /\ created = 0
    /\ crashed = FALSE
    /\ last = Call("create", None, None)

\* the address of the next record: the elements are at 1, 2, 3
fresh_ptr == 4 + created

\* one call of a combiner, its result kept in the slot s
Combined(s, r) ==
    /\ folds[s] = NoFold
    /\ folds' = [folds EXCEPT ![s] = r]
    /\ created' = IF r.ptr = fresh_ptr THEN created + 1 ELSE created
    /\ UNCHANGED <<first, steps, current, crashed, last, pvars, elems, avars>>

SmoothPair(i) ==
    /\ elems # <<>>
    /\ Combined(IF i = 1 THEN "ab" ELSE "bc",
                smoothingAssociativeOperation(elems[i], elems[i + 1], fresh_ptr))

SmoothLeft ==
    /\ elems # <<>> /\ folds["ab"] # NoFold
    /\ Combined("ab_c", smoothingAssociativeOperation(folds["ab"], elems[3], fresh_ptr))

SmoothRight ==
    /\ elems # <<>> /\ folds["bc"] # NoFold
    /\ Combined("a_bc", smoothingAssociativeOperation(elems[1], folds["bc"], fresh_ptr))

FilterPair ==
    /\ elems # <<>>
    /\ Combined("f_ab", filteringAssociativeOperation(elems[1], elems[2], fresh_ptr))

CombineNext ==
    \/ \E i \in 1..2 : SmoothPair(i)
    \/ SmoothLeft
    \/ SmoothRight
    \/ FilterPair

SpecCombine == CombineInit /\ [][CombineNext]_vars

----------------------------------------------------------------------------
(* Associative engine: kalman_smooth_associative *)

ProblemLengths == 1..MaxProblem        \* l
AssocDims      == 1..2                 \* the state dimension of every step
Seeds          == 1..2                 \* which problem of a given shape

\* the block of an input problem: entry p of block tag of step j
Input(r, c, tag, j, seed) ==
    Pack(r, c, [p \in 0..(r * c - 1) |-> 1 + ((tag * 7 + j * 3 + seed * 5 + p * 11) % 100)])

\* kalman_step_equations_t of step j: every step evolved and observed
Equation(n, j, seed) ==
    [dimension |-> n,
     F |-> Input(n, n, 1, j, seed), c |-> Input(n, 1, 2, j, seed),
     K |-> Input(n, n, 3, j, seed),
     G |-> Input(n, n, 4, j, seed), o |-> Input(n, 1, 5, j, seed),
     C |-> Input(n, n, 6, j, seed),
     state |-> NULL, covariance |-> NULL, covariance_type |-> "W"]

kalman_covariance_matrix_explicit(cov) ==
    Mat(cov.rows, cov.rows, Mix(16, cov.val % 65519, 0))

kalman_covariance_matrix_weigh(cov, A) ==
    Mat(A.rows, A.cols, Mix(10, cov.val % 65519, A.val % 65519))

matrix_create_inverse(A) == Mat(A.rows, A.cols, Mix(17, A.val % 65519, 0))

\* elements_init: elements[j] = &elements_array[j], every block NULL
elements_init(j) == [element_create(j + 1) EXCEPT !.step = j]

\* (m0, P0) of step 0, computed by the invocation for i = 1
filtering_m0P0(step_0) ==
    LET W_i_G_i == kalman_covariance_matrix_weigh(step_0.C, step_0.G)
        W_i_o_i == kalman_covariance_matrix_weigh(step_0.C, step_0.o)
        Q   == matrix_create_mutate_qr(matrix_create_copy(W_i_G_i))
        Qo  == matrix_mutate_apply_qt(Q, W_i_o_i)
        R   == matrix_mutate_triu(Q)
        m0  == matrix_create_trisolve(R, Qo)
        RTR == matrix_create_multiply(matrix_create_transpose(R), R)
    IN  [m0 |-> m0, P0 |-> matrix_create_inverse(RTR)]

\* what build_filtering_element_new(equations, elements, i) leaves in
\* elements[i]; els is the elements array with invocation i's write to
\* elements[0] already in it
build_filtering_element_new(equation, els, i) ==
    LET element == [els[i + 1] EXCEPT
                       !.dimension = equation.dimension,
                       !.F = matrix_create_copy(equation.F),
                       !.c = matrix_create_copy(equation.c),
                       !.K = matrix_create_copy(equation.K)]
        n_i  == equation.dimension
        F_i  == equation.F
        c_i  == equation.c
        K_0  == kalman_covariance_matrix_explicit(equation.K)
        K_i  == IF i = 1
                THEN matrix_create_add(K_0,
                         matrix_create_multiply(
                             matrix_create_multiply(F_i, els[1].covariance),
                             matrix_create_transpose(F_i)))
                ELSE K_0
        G_i  == equation.G
        o_i  == equation.o
        C_i  == kalman_covariance_matrix_explicit(equation.C)
        S    == matrix_create_add(
                    matrix_create_multiply(G_i,
                        matrix_create_multiply(K_i, matrix_create_transpose(G_i))),
                    C_i)
        G_i_trans_inv_S ==
                matrix_create_transpose(
                    matrix_create_mldivide(matrix_create_transpose(S), G_i))
        K    == matrix_create_multiply(K_i, G_i_trans_inv_S)
        m1   == matrix_create_add(matrix_create_multiply(F_i, els[1].state), c_i)
        o_G_ic == matrix_create_subtract(o_i, matrix_create_multiply(G_i, c_i))
        FTG  == matrix_create_multiply(matrix_create_transpose(F_i), G_i_trans_inv_S)
        GF   == matrix_create_multiply(G_i, F_i)
    IN  IF i = 0 THEN element
        ELSE IF IsNull(o_i) THEN
            [element EXCEPT
                !.Z = K_i,
                !.A = IF i = 1 THEN matrix_create_constant(n_i, n_i, 0)
                               ELSE matrix_create_copy(F_i),
                !.b = IF i = 1 THEN matrix_create_add(els[1].state, c_i)
                               ELSE matrix_create_copy(c_i)]
        ELSE IF i = 1 THEN
            [element EXCEPT
                !.A = matrix_create_constant(n_i, n_i, 0),
                !.b = matrix_create_add(m1,
                          matrix_create_multiply(K,
                              matrix_create_subtract(o_i, matrix_create_multiply(G_i, m1)))),
                !.Z = matrix_create_subtract(K_i,
                          matrix_create_multiply(matrix_create_multiply(K, S),
                                                 matrix_create_transpose(K))),
                !.e = matrix_create_multiply(FTG, o_G_ic),
                !.J = matrix_create_multiply(FTG, GF)]
        ELSE
            [element EXCEPT
                !.A = matrix_create_subtract(F_i, matrix_create_multiply(K, GF)),
                !.b = matrix_create_add(c_i, matrix_create_multiply(K, o_G_ic)),
                !.Z = matrix_create_subtract(K_i,
                          matrix_create_multiply(matrix_create_multiply(K, G_i), K_i)),
                !.e = matrix_create_multiply(FTG, o_G_ic),
                !.J = matrix_create_multiply(FTG, GF)]

\* what build_smoothing_element_new(elements, n, i) leaves in elements[i]
build_smoothing_element_new(els, n, i) ==
    LET step_i == els[i + 1]
        ni  == step_i.dimension
        x   == step_i.state
        P   == kalman_covariance_matrix_explicit(step_i.covariance)
        F   == els[i + 2].F
        Q   == kalman_covariance_matrix_explicit(els[i + 2].K)
        c   == els[i + 2].c
        PFT == matrix_create_multiply(P, matrix_create_transpose(F))
        FPFT_Q == matrix_create_add(matrix_create_multiply(F, PFT), Q)
        E   == matrix_create_transpose(
                   matrix_create_mldivide(matrix_create_transpose(FPFT_Q),
                                          matrix_create_transpose(PFT)))
    IN  IF i = n - 1
        THEN [step_i EXCEPT !.E = matrix_create_constant(ni, ni, 0),
                            !.g = matrix_create_copy(step_i.state),
                            !.L = matrix_create_copy(step_i.covariance)]
        ELSE [step_i EXCEPT
                !.E = E,
                !.g = matrix_create_subtract(x,
                          matrix_create_multiply(E,
                              matrix_create_add(matrix_create_multiply(F, x), c))),
                !.L = matrix_create_subtract(P,
                          matrix_create_multiply(matrix_create_multiply(E, F), P))]

\* the inclusive scan of input[0 .. len-1] under the combiner op points to:
\* position k holds the fold of the first k + 1 inputs in scan order (stride
\* 1: from input[0] upwards, stride -1: from input[len-1] downwards); base + k
\* is the address of the record the combiner creates for position k
prefix_sums_pointers(fn, in, len, strd, base) ==
    LET op(si, sj, fresh) ==
            IF fn = "filteringAssociativeOperation"
            THEN filteringAssociativeOperation(si, sj, fresh)
            ELSE smoothingAssociativeOperation(si, sj, fresh)
        at(k) == IF strd = -1 THEN in[len - k] ELSE in[k + 1]
        s[k \in 0..(len - 1)] ==
            IF k = 0 THEN op(NullElement, at(0), base)
                     ELSE op(s[k - 1], at(k), base + k)
    IN  [k \in 1..len |-> s[k - 1]]

NoScans == [filtered |-> <<>>, smoothed |-> <<>>]

AssocInit ==
    /\ \E l \in ProblemLengths, n \in AssocDims, seed \in Seeds :
          equations = [j \in 1..l |-> Equation(n, j - 1, seed)]
    /\ elems = [k \in 1..Len(equations) |-> NoFold]    \* malloc'ed, not yet set
    /\ folds = NoScans
    /\ pc = "elements_init" /\ todo = 0..(Len(equations) - 1)
    /\ length = 0 /\ stride = 1 /\ blocksize = 1
    /\ blocks = <<>> /\ sums = <<>>
    /\ first = 0 /\ steps = <<>> /\ current = NoStep /\ created = 0
    /\ crashed = FALSE
    /\ last = Call("create", None, None)

l == Len(equations)

\* a foreach_in_range has processed index j; when it was the last one the
\* statement next follows, with the index range rng if it is a foreach too
foreach_done(j, next, rng) ==
    /\ todo' = IF todo = {j} THEN rng ELSE todo \ {j}
    /\ pc'   = IF todo = {j} THEN next ELSE pc

akeep == <<first, steps, current, pvars>>

\* the number of entries each array is allocated with (lines 1549, 1550,
\* 1556, 1575)
array_size(arr) == IF arr = "filtered" THEN l - 1 ELSE l

\* the array entries the statement stmt reads or writes when it handles index j
indexed(stmt, j) ==
    CASE stmt = "elements_init"     -> {<<"elements", j>>}
      [] stmt = "build_filtering"   ->
            {<<"equations", j>>, <<"elements", j>>}
                \cup (IF j = 1 THEN {<<"equations", 0>>, <<"elements", 0>>} ELSE {})
      [] stmt = "scan_filtering"    ->
            {<<"elements", 1 + k>> : k \in 0..(l - 2)}
                \cup {<<"filtered", k>> : k \in 0..(l - 2)}
      [] stmt = "filtered_to_state" -> {<<"elements", j>>, <<"filtered", j - 1>>}
      [] stmt = "last"              -> {<<"equations", l - 1>>, <<"filtered", l - 2>>}
      [] stmt = "build_smoothing"   ->
            {<<"elements", j>>} \cup (IF j = l - 1 THEN {} ELSE {<<"elements", j + 1>>})
      [] stmt \in {"scan_smoothing", "parallel_scan"} ->
            {<<"elements", k>> : k \in 0..(l - 1)}
                \cup {<<"smoothed", k>> : k \in 0..(l - 1)}
      [] stmt = "smoothed_to_state" -> {<<"equations", j>>, <<"smoothed", l - 2 - j + 1>>}

\* the indices of the element records a statement has written to
written == {k \in 0..(l - 1) : elems'[k + 1] # elems[k + 1]}

\* the statement at pc runs for index j: b is the set of element records it
\* writes to, ub tells whether it indexes an array outside its allocation
touches(j) ==
    last' = [Call(pc, j, written) EXCEPT
                !.ub = \E a \in indexed(pc, j) : a[2] < 0 \/ a[2] >= array_size(a[1])]

\* line 1552, index j
ElementsInit(j) ==
    /\ ~crashed /\ pc = "elements_init" /\ j \in todo
    /\ elems' = [elems EXCEPT ![j + 1] = elements_init(j)]
    /\ foreach_done(j, "build_filtering", 0..(l - 1))
    /\ UNCHANGED <<akeep, created, crashed, folds, equations>>
    /\ touches(j)

\* line 1554, index j
BuildFiltering(j) ==
    /\ ~crashed /\ pc = "build_filtering" /\ j \in todo
    /\ LET mP   == filtering_m0P0(equations[1])
           els0 == IF j = 1
                   THEN [elems EXCEPT ![1].state = mP.m0, ![1].covariance = mP.P0]
                   ELSE elems
       IN  elems' = [els0 EXCEPT ![j + 1] =
                        build_filtering_element_new(equations[j + 1], els0, j)]
    /\ foreach_done(j, "scan_filtering", {})
    /\ UNCHANGED <<akeep, created, crashed, folds, equations>>
    /\ touches(j)

\* lines 1556-1560
ScanFiltering ==
    /\ ~crashed /\ pc = "scan_filtering"
    /\ folds' = [folds EXCEPT !.filtered =
                    prefix_sums_pointers("filteringAssociativeOperation",
                                         SubSeq(elems, 2, l), l - 1, 1, 10)]
    /\ created' = IF l >= 3 THEN created + (l - 2) ELSE created
    /\ pc' = IF l >= 2 THEN "filtered_to_state" ELSE "last"
    /\ todo' = 1..(l - 1)
    /\ UNCHANGED <<akeep, crashed, elems, equations>>
    /\ touches(None)

\* line 1562, index j of the elements (j - 1 of the scan result)
FilteredToState(j) ==
    /\ ~crashed /\ pc = "filtered_to_state" /\ j \in todo
    /\ elems' = [elems EXCEPT
                    ![j + 1].state      = matrix_create_copy(folds.filtered[j].b),
                    ![j + 1].covariance = matrix_create_copy(folds.filtered[j].Z)]
    /\ foreach_done(j, "last", {})
    /\ UNCHANGED <<akeep, created, crashed, folds, equations>>
    /\ touches(j)

\* the blocks lines 1565-1566 can leave in equations[l-1]: for l = 1 they
\* read filtered[-1], a pointer that was never written
last_step_reads ==
    IF l = 1
    THEN {[state |-> Mat(equations[1].dimension, 1, v),
           covariance |-> Mat(equations[1].dimension, equations[1].dimension, v)] :
              v \in StaleReads}
    ELSE {[state |-> matrix_create_copy(folds.filtered[l - 1].b),
           covariance |-> matrix_create_copy(folds.filtered[l - 1].L)]}

\* lines 1565-1571; reading filtered[-1], or copying a NULL block in a
\* library that does not test for it, can also end the program
LastStep ==
    /\ ~crashed /\ pc = "last"
    /\ \/ /\ IF l = 1 THEN TRUE ELSE IsNull(folds.filtered[l - 1].L)
          /\ crashed' = TRUE
          /\ UNCHANGED <<equations, pc, todo>>
       \/ /\ \E r \in last_step_reads :
                equations' = [equations EXCEPT
                                 ![l].state = r.state,
                                 ![l].covariance = r.covariance,
                                 ![l].covariance_type = "C"]
          /\ pc' = "build_smoothing"
          /\ todo' = 0..(l - 1)
          /\ UNCHANGED crashed
    /\ UNCHANGED <<akeep, created, elems, folds>>
    /\ touches(None)

\* line 1573, index j
BuildSmoothing(j) ==
    /\ ~crashed /\ pc = "build_smoothing" /\ j \in todo
    /\ elems' = [elems EXCEPT ![j + 1] = build_smoothing_element_new(elems, l, j)]
    /\ foreach_done(j, "scan_smoothing", {})
    /\ UNCHANGED <<akeep, created, crashed, folds, equations>>
    /\ touches(j)

\* the record a scan result stands for: the smoothing elements at the
\* positions pos combined from left to right; fresh is the address of the
\* record that holds the result
smoothing_fold(pos, fresh) ==
    LET s[k \in 1..Len(pos)] ==
            IF k = 1
            THEN smoothingAssociativeOperation(NullElement, elems[pos[1] + 1], fresh)
            ELSE smoothingAssociativeOperation(s[k - 1], elems[pos[k] + 1], fresh)
    IN  s[Len(pos)]

\* lines 1575-1578: the backward scan is entered; the runtime then splits
\* the range and scans the blocks (Split, PreScan, FinalScan)
ScanSmoothing ==
    /\ ~crashed /\ pc = "scan_smoothing"
    /\ length' = l /\ stride' = -1
    /\ \E g \in Grains : blocksize' = g
    /\ blocks' = << [lo |-> 0, hi |-> l, pre |-> NoSum, out |-> NoSum] >>
    /\ sums' = [k \in 0..(l - 1) |-> NoSum]
    /\ pc' = "parallel_scan"
    /\ UNCHANGED <<first, steps, current, created, crashed, elems, folds, equations, todo>>
    /\ touches(None)

\* the backward scan returns: every position of smoothed has been written
ScanSmoothed ==
    /\ ~crashed /\ pc = "parallel_scan"
    /\ \A k \in DOMAIN sums : sums[k] # NoSum
    /\ folds' = [folds EXCEPT !.smoothed =
                    [k \in 1..l |-> smoothing_fold(sums[k - 1], 20 + k - 1)]]
    /\ created' = created + (l - 1)
    /\ blocks' = <<>>
    /\ pc' = IF l >= 2 THEN "smoothed_to_state" ELSE "done"
    /\ todo' = 0..(l - 2)
    /\ UNCHANGED <<first, steps, current, crashed, elems, equations,
                   length, stride, blocksize, sums>>
    /\ touches(None)

\* line 1580, index j
SmoothedToState(j) ==
    /\ ~crashed /\ pc = "smoothed_to_state" /\ j \in todo
    /\ LET i == l - 2 - j + 1
       IN  equations' = [equations EXCEPT
                            ![j + 1].state = matrix_create_copy(folds.smoothed[i + 1].g),
                            ![j + 1].covariance = matrix_create_copy(folds.smoothed[i + 1].L),
                            ![j + 1].covariance_type = "C"]
    /\ foreach_done(j, "done", {})
    /\ UNCHANGED <<akeep, created, crashed, elems, folds>>
    /\ touches(j)

AssocNext ==
    \/ \E j \in 0..(MaxProblem - 1) : ElementsInit(j)
    \/ \E j \in 0..(MaxProblem - 1) : BuildFiltering(j)
    \/ ScanFiltering
    \/ \E j \in 0..(MaxProblem - 1) : FilteredToState(j)
    \/ LastStep
    \/ \E j \in 0..(MaxProblem - 1) : BuildSmoothing(j)
    \/ ScanSmoothing
    \/ \E p \in 1..MaxLen : Split(p)
    \/ \E p \in 1..MaxLen : PreScan(p)
    \/ \E p \in 1..MaxLen : FinalScan(p)
    \/ ScanSmoothed
    \/ \E j \in 0..(MaxProblem - 1) : SmoothedToState(j)

SpecAssoc == AssocInit /\ [][AssocNext]_vars

----------------------------------------------------------------------------
(* The log: indices, rollback and forget *)

\* C1: after any sequence of evolve, observe, rollback, forget and smooth
\* calls the steps in the log have consecutive logical indices: the entry at
\* position k holds index earliest()+k, no gap and no index twice.
C1_LogContiguous ==
    \A p \in 1..Len(steps) : steps[p].step = kalman_earliest + (p - 1)

\* the step of the log that carries logical index si
HoldsIndex(p, si) == p \in 1..Len(steps) /\ steps[p].step = si

\* C2: for earliest <= s <= latest, a rollback(s) that returns removes every
\* step with index >= s, latest() becomes s-1 (-1 when s = earliest), and
\* step s is the open step with its original index, dimension, Rbar and
\* ybar; the next observe seals step s again and latest() becomes s.
C2_RollbackReopens ==
    [][ /\ \A si \in LogArgs :
              ( /\ farray_size > 0
                /\ kalman_earliest <= si /\ si <= kalman_latest
                /\ Rollback(si) /\ ~crashed' )
              => /\ \A p \in 1..Len(steps') : steps'[p].step < si
                 /\ kalman_latest' = (IF si = kalman_earliest THEN -1 ELSE si - 1)
                 /\ current'.step = si
                 /\ \E p \in 1..Len(steps) :
                       /\ HoldsIndex(p, si)
                       /\ current'.dimension = steps[p].dimension
                       /\ current'.Rbar = steps[p].Rbar
                       /\ current'.ybar = steps[p].ybar
        /\ \A m \in ObsRows :
              (last.op = "rollback" /\ last.b = 1 /\ Observe(m))
              => kalman_latest' = last.a ]_vars

\* C4: a rollback(s) that returns leaves every step with index < s in the
\* log, with its dimension, Rdiag, Rsupdiag, y, Rbar, ybar, state and
\* covariance exactly as before the call.
C4_RollbackFrame ==
    [][ \A si \in LogArgs :
           (Rollback(si) /\ ~crashed')
           => \A p \in 1..Len(steps) :
                 steps[p].step < si => (p <= Len(steps') /\ steps'[p] = steps[p]) ]_vars

\* C5: a forget(s) with s >= earliest that returns removes exactly the steps
\* with index <= s, the most recent step excepted: afterwards
\* earliest() = min(s+1, latest) and latest() is unchanged.
C5_ForgetRemoves ==
    [][ \A si \in LogArgs :
           ( /\ farray_size > 0 /\ si >= kalman_earliest
             /\ Forget(si) /\ ~crashed' )
           => /\ kalman_earliest' = Min(si + 1, kalman_latest)
              /\ kalman_latest' = kalman_latest
              /\ steps' = SubSeq(steps, Len(steps) - Len(steps') + 1, Len(steps)) ]_vars

\* C6: no forget call, whatever its argument and the state it is made in,
\* empties a non-empty log or changes latest(); a forget(-1) that returns
\* leaves exactly one step in a non-empty log, the latest one.
C6_ForgetKeepsLatest ==
    [][ \A si \in LogArgs :
           (farray_size > 0 /\ Forget(si))
           => /\ Len(steps') > 0
              /\ kalman_latest' = kalman_latest
              /\ (si = -1 /\ ~crashed') => steps' = <<farray_get_last>> ]_vars

\* a forget removed two steps and left the latest one alone in the log
C6_Witness ==
    /\ last.op = "forget" /\ last.b >= 2 /\ ~crashed
    /\ Len(steps) = 1

\* C7: rollback(s) with s < earliest or s > latest, forget(s) with
\* 0 <= s < earliest, and either call on an empty log change nothing: the
\* log, the open step and every stored block are as before.
C7_OutOfRangeNoOp ==
    [][ \A si \in LogArgs :
           /\ ( /\ Rollback(si)
                /\ farray_size = 0 \/ si < kalman_earliest \/ si > kalman_latest )
              => UNCHANGED <<first, steps, current, crashed>>
           /\ ( /\ Forget(si)
                /\ farray_size = 0 \/ (0 <= si /\ si < kalman_earliest) )
              => UNCHANGED <<first, steps, current, crashed>> ]_vars

----------------------------------------------------------------------------
(* Rollback round trip *)

\* the open step as evolve made it: index, dimension, Rbar and ybar only
FreshOpen(cur) ==
    [step_create EXCEPT !.step = cur.step, !.dimension = cur.dimension,
                        !.Rbar = cur.Rbar, !.ybar = cur.ybar]

\* C3: after a rollback(s) with earliest <= s <= latest, an observe with the
\* observation step s was sealed with leaves step s with the Rdiag, y, state
\* and covariance it had right after its first observe, that is, those an
\* observe of the freshly evolved step computes.
C3_RollbackRoundTrip ==
    [][ \A m \in ObsRows :
           (last.op = "rollback" /\ last.b = 1 /\ current.obs = m /\ Observe(m))
           => LET now == steps'[Len(steps')]
                  was == observe_step(FreshOpen(current), m)
              IN  /\ now.Rdiag = was.Rdiag
                  /\ now.y = was.y
                  /\ now.state = was.state
                  /\ now.covariance = was.covariance ]_vars

----------------------------------------------------------------------------
(* estimate and covariance *)

NaNFilled(m) == IsLive(m) /\ m.val = NaNVal

HasShape(m, r, c) == IsLive(m) /\ matrix_rows(m) = r /\ matrix_cols(m) = c

\* C8: on a non-empty log, estimate(s) and covariance(s) with s >= 0 outside
\* [earliest, latest] return a NaN-filled result; they read no step outside
\* the log and do not fail.
C8_OutOfRangeNaN ==
    \A si \in 0..MaxSteps :
        ( /\ ~crashed /\ farray_size > 0
          /\ si < kalman_earliest \/ si > kalman_latest )
        => /\ NaNFilled(kalman_estimate(si))
           /\ NaNFilled(kalman_covariance(si))

\* C9: for every step s of the log, the vector estimate(s) returns has length
\* n_s and the matrix covariance(s) returns is n_s x n_s, n_s the dimension
\* evolve opened step s with, whatever calls were made since.
C9_ResultShapes ==
    \A p \in 1..Len(steps) :
        LET n_s == steps[p].dimension
            est == kalman_estimate(steps[p].step)
            cov == kalman_covariance(steps[p].step)
        IN  ~crashed
            => /\ IsLive(est) => HasShape(est, n_s, 1)
               /\ IsLive(cov) => HasShape(cov, n_s, n_s)

----------------------------------------------------------------------------
(* observe *)

Determined(i) == IsLive(i.Rdiag) /\ matrix_rows(i.Rdiag) = i.dimension

AllNaN(i) == i.state = matrix_create_constant(i.dimension, 1, NaNVal)

----------------------------------------------------------------------------
\* C11 (as stated): between public calls only the open step holds Rbar/ybar
\* blocks; the steps sealed into the log hold none
C11_SealedHoldNone ==
    \A p \in 1..Len(steps) : IsNull(steps[p].Rbar) /\ IsNull(steps[p].ybar)

\* the step q keeps the index and the Rbar/ybar blocks of the step s
KeepsBar(q, s) == q.step = s.step /\ q.Rbar = s.Rbar /\ q.ybar = s.ybar

CameFrom(q) ==
    \/ \E p \in 1..Len(steps) : KeepsBar(q, steps[p])
    \/ current # NoStep /\ KeepsBar(q, current)

\* C11: Rbar/ybar are made by evolve alone, for the step it opens, and stay
\* with that step: every step in the log after a call, and the open step
\* unless evolve has just created it, holds the very Rbar/ybar it held before
\* the call, sealed (observe), kept in the log, or reopened (rollback)
C11_BarStaysWithStep ==
    [][ ~crashed' =>
        /\ \A p \in 1..Len(steps') : CameFrom(steps'[p])
        /\ (current' # NoStep /\ last'.op # "evolve") => CameFrom(current') ]_vars

C11_Witness ==
    /\ last.op = "rollback" /\ last.b = 1 /\ ~crashed
    /\ IsLive(current.Rbar) /\ IsLive(current.ybar)
    /\ \E p \in 1..Len(steps) : IsLive(steps[p].Rbar)

----------------------------------------------------------------------------
\* C12 (as stated): a second smooth() straight after a first one, on a log
\* whose latest step has been observed, completes and leaves the state and
\* the covariance of every step what the first call made them
C12_SmoothIdempotent ==
    [][ (last.op = "smooth" /\ farray_size > 0 /\ Smooth) =>
            /\ ~crashed'
            /\ \A p \in 1..Len(steps) :
                   /\ steps'[p].state = steps[p].state
                   /\ steps'[p].covariance = steps[p].covariance ]_vars

----------------------------------------------------------------------------
C14_NullHAccepted ==
    (last.op = "evolve" /\ last.b = 1 /\ last.nul = "H_i") => ~crashed

\* C15: evolve on an empty log returns with the log still empty and an open
\* step that has the dimension n_i, the index 0 and no block at all, whatever
\* H_i, F_i, c_i, K_i are, NULL included
C15_FirstEvolveOnlyOpens ==
    (last.op = "evolve" /\ last.b = 0) =>
        /\ ~crashed
        /\ steps = <<>>
        /\ last.a \in Dims
        /\ current = [step_create EXCEPT !.dimension = last.a, !.step = 0]

C15_Witness ==
    /\ last.op = "evolve" /\ last.b = 0 /\ last.nul = "H_i"
    /\ current.step = 0 /\ current.dimension = MaxDim /\ ~crashed

----------------------------------------------------------------------------
\* C16 (as stated, last part): each observe raises latest() by exactly one
C16_ObserveRaisesByOne ==
    [][ last'.op = "observe" => kalman_latest' = kalman_latest + 1 ]_vars

\* C16: earliest() and latest() are -1 exactly when the log is empty and
\* otherwise the indices of its first and last step; evolve changes neither;
\* observe makes latest() the index of the step it seals, which is greater
\* than latest() was, by one when the call follows the evolve that opened the
\* step on a non-empty log
C16_EarliestLatest ==
    [][ /\ (farray_size' = 0) <=> (kalman_earliest' = -1)
        /\ (farray_size' = 0) <=> (kalman_latest' = -1)
        /\ farray_size' > 0 =>
              /\ kalman_earliest' = steps'[1].step
              /\ kalman_latest' = steps'[Len(steps')].step
        /\ last'.op = "evolve" =>
              /\ kalman_earliest' = kalman_earliest
              /\ kalman_latest' = kalman_latest
        /\ last'.op = "observe" =>
              /\ kalman_latest' = current.step
              /\ kalman_latest' > kalman_latest
              /\ (last.op = "evolve" /\ farray_size > 0)
                    => kalman_latest' = kalman_latest + 1 ]_vars

\* an observe on an empty log has sealed a step with an index above 0
C16_Witness ==
    /\ last.op = "observe" /\ ~crashed
    /\ farray_size = 1 /\ kalman_latest >= 1 /\ kalman_earliest = kalman_latest

----------------------------------------------------------------------------
\* input[0] (+) input[1] (+) ... (+) input[k]
LeftFold(k) == [i \in 1..(k + 1) |-> i - 1]

\* C17 (as stated): in a forward scan (stride +1) every output position k
\* that has been written holds the left fold input[0] (+) ... (+) input[k],
\* however the runtime has split the range and whichever blocks it pre-scanned
C17_ForwardScanFolds ==
    (stride = 1 /\ ~crashed) =>
        \A k \in DOMAIN sums : sums[k] # NoSum => sums[k] = LeftFold(k)

----------------------------------------------------------------------------
SameTuple(x, y) == x.E = y.E /\ x.g = y.g /\ x.L = y.L

IsElement(x) == x.ptr # 0

\* the combiner calls made so far that had two elements to combine
Allocating ==
    {s \in Slots : folds[s] # NoFold /\
        CASE s = "ab"   -> IsElement(elems[1]) /\ IsElement(elems[2])
          [] s = "f_ab" -> IsElement(elems[1]) /\ IsElement(elems[2])
          [] s = "bc"   -> IsElement(elems[2]) /\ IsElement(elems[3])
          [] s = "ab_c" -> IsElement(folds["ab"]) /\ IsElement(elems[3])
          [] s = "a_bc" -> IsElement(elems[1]) /\ IsElement(folds["bc"])}

\* C18: the smoothing combiner gives E = E_b E_a, g = E_b g_a + g_b,
\* L = E_b L_a E_b^T + L_b; (a (+) b) (+) c and a (+) (b (+) c) agree in E, g
\* and L; with NULL on either side both combiners return the other argument
\* itself, and a record is allocated only by a call that has two elements
C18_CombinerMonoid ==
    elems # <<>> =>
    LET a == elems[1]
        b == elems[2]
        c == elems[3]
    IN  /\ (folds["ab"] # NoFold /\ IsElement(a) /\ IsElement(b)) =>
              /\ folds["ab"].E = matrix_create_multiply(b.E, a.E)
              /\ folds["ab"].g = matrix_create_add(matrix_create_multiply(b.E, a.g), b.g)
              /\ folds["ab"].L = matrix_create_add(
                                    matrix_create_multiply(
                                        matrix_create_multiply(b.E, a.L),
                                        matrix_create_transpose(b.E)), b.L)
        /\ (folds["ab_c"] # NoFold /\ folds["a_bc"] # NoFold) =>
              SameTuple(folds["ab_c"], folds["a_bc"])
        /\ \A s \in {"ab", "f_ab"} : folds[s] # NoFold =>
              /\ ~IsElement(a) => folds[s] = b
              /\ ~IsElement(b) => folds[s] = a
        /\ (folds["bc"] # NoFold /\ ~IsElement(b)) => folds["bc"] = c
        /\ (folds["bc"] # NoFold /\ ~IsElement(c)) => folds["bc"] = b
        /\ created = Cardinality(Allocating)

C18_Witness ==
    /\ elems # <<>>
    /\ IsElement(elems[1]) /\ IsElement(elems[2]) /\ IsElement(elems[3])
    /\ elems[2].E # elems[3].E
    /\ folds["ab_c"] # NoFold /\ folds["a_bc"] # NoFold
    /\ folds["ab_c"].ptr # folds["a_bc"].ptr
    /\ created = 4

----------------------------------------------------------------------------
(* Associative engine: the results written back *)

\* the statements after lines 1565-1567
AfterLastStep == pc \in {"build_smoothing", "scan_smoothing", "smoothed_to_state", "done"}

SameBlock(a, b) == IsLive(a) /\ IsLive(b) /\ a.rows = b.rows /\ a.cols = b.cols /\ a.val = b.val

\* C19: when kalman_smooth_associative has finished a problem of l >= 2
\* observed steps, every step holds what the sequential engine holds for it: a
\* smoothed state of n rows and an explicit n-by-n covariance, without which
\* the two engines cannot agree to any tolerance
C19_EnginesAgree ==
    (pc = "done" /\ l >= 2) =>
        \A j \in 1..l :
            /\ IsLive(equations[j].state)
            /\ equations[j].state.rows = equations[j].dimension
            /\ IsLive(equations[j].covariance)
            /\ equations[j].covariance.rows = equations[j].dimension
            /\ equations[j].covariance.cols = equations[j].dimension

\* C20: after lines 1565-1567 on l >= 2 steps, equations[l-1].state is the b
\* component and equations[l-1].covariance the Z component of filtered[l-2],
\* both non-null, and the covariance tag is 'C'
C20_LastStepIsFiltered ==
    (AfterLastStep /\ l >= 2) =>
        /\ SameBlock(equations[l].state, folds.filtered[l - 1].b)
        /\ SameBlock(equations[l].covariance, folds.filtered[l - 1].Z)
        /\ equations[l].covariance_type = "C"

\* the foreach over build_filtering_elements_new has finished
FilteringBuilt == pc \notin {"elements_init", "build_filtering"}

\* C21: for every problem length l >= 1, l = 1 included, no statement of
\* kalman_smooth_associative indexes the equations, elements, filtered or
\* smoothed array outside its allocation, and once the filtering elements are
\* built step 0 holds the directly computed (m0, P0) as state and covariance
C21_EveryLengthWorks ==
    /\ ~last.ub
    /\ FilteringBuilt =>
          /\ SameBlock(elems[1].state, filtering_m0P0(equations[1]).m0)
          /\ SameBlock(elems[1].covariance, filtering_m0P0(equations[1]).P0)

\* C22: during the foreach over build_filtering_element_new, the invocation
\* for index i writes to no element record other than elements[i], so that
\* however the range is cut into blocks no two workers write the same record
C22_OwnRecordOnly ==
    last.op = "build_filtering" => last.b \subseteq {last.a}

\* the positions l-1, l-2, ..., l-1-k
Downwards(k) == [i \in 1..(k + 1) |-> l - i]

\* C23: the backward scan leaves at every written output position k the
\* fold of the smoothing elements l-1, l-2, ..., l-1-k in that order; every
\* step j in [0, l-1) that smoothed_to_state_new has handled holds the copies
\* of g and L of output position l-1-j with tag 'C', a step not handled yet
\* has not been written, and the last step is not written by it at all
C23_ReverseScanWritesBack ==
    /\ pc = "parallel_scan" =>
          \A k \in DOMAIN sums : sums[k] # NoSum => sums[k] = Downwards(k)
    /\ pc \in {"smoothed_to_state", "done"} =>
          /\ \A k \in 0..(l - 1) :
                folds.smoothed[k + 1] = smoothing_fold(Downwards(k), 20 + k)
          /\ \A j \in 0..(l - 2) :
                IF pc = "smoothed_to_state" /\ j \in todo
                THEN IsNull(equations[j + 1].state) /\ equations[j + 1].covariance_type = "W"
                ELSE /\ SameBlock(equations[j + 1].state, folds.smoothed[l - j].g)
                     /\ SameBlock(equations[j + 1].covariance, folds.smoothed[l - j].L)
                     /\ equations[j + 1].covariance_type = "C"
    /\ last.op = "smoothed_to_state" => last.a \in 0..(l - 2)

\* a problem of three or more steps smoothed to the end, the backward scan
\* cut into blocks of one position
C23_Witness ==
    /\ pc = "done" /\ l >= 3 /\ blocksize = 1
    /\ \A j \in 1..(l - 1) : equations[j].covariance_type = "C"

----------------------------------------------------------------------------
(* Sequential engine: ownership of the step records *)

\* step_free calls made so far: kalman_forget makes one after each
\* farray_drop_first, the only call that advances the first index of the
\* log; kalman_rollback and kalman_evolve make none
steps_freed == farray_first_index

\* the step records the filter still points to
steps_held == farray_size + (IF current = NoStep THEN 0 ELSE 1)

\* C24: after any sequence of calls every step record ever created is in the
\* log, is the open step, or has been freed: none has been dropped without
\* being destroyed
C24_StepsAccounted ==
    ~crashed => created = steps_held + steps_freed

----------------------------------------------------------------------------
(* Sequential engine: smoothing and the stability of results *)

\* C25: after a smooth() on a non-empty log that read no released block,
\* whether or not a later step is open, covariance[latest] equals
\* Rdiag[latest], and the covariance of step latest-1 is the one the second
\* loop computes with R = Rdiag[latest]
C25_LatestCovarianceIsRdiag ==
    (last.op = "smooth" /\ ~crashed /\ ~last.ub /\ farray_size > 0) =>
        LET i == farray_get_last
        IN  /\ SameBlock(i.covariance, i.Rdiag)
            /\ farray_size >= 2 =>
                  steps[Len(steps) - 1].covariance =
                      smooth_covariance(steps[Len(steps) - 1], i.Rdiag, matrix_rows(i.Rdiag))

\* C26: right after an observe with null observations the open step is the
\* last step of the log; if it held the rows left over from an evolution of
\* at least n_i rows after a determined step (an Rbar of at least n_i rows) it
\* is determined and its state is a solved vector, not NaN; if it held no
\* Rbar it has no Rdiag and estimate reports a NaN vector for it
C26_NullObservationSeals ==
    (last.op = "observe" /\ last.a = 0) =>
        LET i == farray_get_last
        IN  /\ (IsLive(i.Rbar) /\ matrix_rows(i.Rbar) >= i.dimension) =>
                  Determined(i) /\ IsLive(i.state) /\ ~AllNaN(i)
            /\ IsNull(i.Rbar) =>
                  IsNull(i.Rdiag) /\ NaNFilled(kalman_estimate(i.step))

\* the step holds a pointer to a block that has been freed
Dangling(s) == \E m \in StepMatrices(s) : IsFreed(m)

\* C27: no step of the log and no open step ever holds a reference to a freed
\* block (after rollback(s) the open step s has no Rdiag, Rsupdiag, y, state
\* or covariance), and no call reads or frees a block that was freed before
C27_NoDanglingReference ==
    /\ \A p \in 1..Len(steps) : ~Dangling(steps[p])
    /\ current # NoStep => ~Dangling(current)
    /\ ~last.ub

\* the fields of a step record that kalman_smooth neither writes through nor
\* replaces
SmoothKeeps(s) ==
    <<s.step, s.dimension, s.Rdiag, s.Rsupdiag, s.y, s.Rbar, s.ybar>>

\* C28: a call of smooth returns, and changes nothing but the state and the
\* covariance of the steps in the log: the first and the last index, the open
\* step, and every step's dimension, Rdiag, Rsupdiag, y, Rbar and ybar are
\* what they were, so that evolve and observe go on as if it had not been
\* called.
C28_SmoothFrame ==
    [][ Smooth =>
            /\ ~crashed'
            /\ first' = first
            /\ current' = current
            /\ Len(steps') = Len(steps)
            /\ \A p \in 1..Len(steps) :
                   SmoothKeeps(steps'[p]) = SmoothKeeps(steps[p]) ]_vars

\* C29: evolve and observe leave what estimate(j) and covariance(j) return
\* unchanged for every step j already sealed in the log; only smooth and
\* rollback change these values.
C29_FilteredStable ==
    [][ (last'.op \in {"evolve", "observe"} /\ ~crashed') =>
            \A j \in 0..MaxLogSteps :
                InLog(j) =>
                    /\ kalman_estimate(j)' = kalman_estimate(j)
                    /\ kalman_covariance(j)' = kalman_covariance(j) ]_vars

----------------------------------------------------------------------------
\* Sequential engine: the numbering of the steps

\* C30: logical indices are never reused or reset: the step an evolve opens
\* gets the index of the last sealed step plus one when the log holds a
\* step, and, once a step has been forgotten, an index above those forgotten:
\* farray_first_index counts the records dropped at the front, the first of
\* which is step 0, so index 0 is not given again.
C30_IndicesNeverReused ==
    [][ (last'.op = "evolve" /\ ~crashed') =>
            /\ farray_size > 0 => current'.step = farray_get_last.step + 1
            /\ farray_first_index > 0 => current'.step > 0 ]_vars

====
